---- MODULE Spec2Model ----
(***************************************************************************)
(* ObjectNameLookup.cpp: a benchmark of name lookups in the NT object      *)
(* manager namespace.  The model covers main(), the eight scenarios        *)
(* Test1..Test8, RunTest, the ScopedHandle / Timer / UnicodeString helper  *)
(* classes and the part of the object manager the scenarios act on.        *)
(***************************************************************************)
EXTENDS Integers, Sequences, FiniteSets

(***************************************************************************)
(* wstring.  A wide string is kept run-length encoded: a sequence of runs  *)
(* <<c, n>> (character c repeated n >= 1 times) in which adjacent runs     *)
(* hold different characters.  Two strings are equal exactly when their    *)
(* encodings are equal.  NUL is the character with code 0.                 *)
(***************************************************************************)
NUL == "NUL"

Cat(a, b) ==
    IF a = <<>> THEN b
    ELSE IF b = <<>> THEN a
    ELSE IF a[Len(a)][1] = b[1][1]
         THEN SubSeq(a, 1, Len(a) - 1)
                 \o << <<b[1][1], a[Len(a)][2] + b[1][2]>> >> \o Tail(b)
         ELSE a \o b

\* wstring(n, c), and the result of n push_back(c) on an empty string
Repeat(c, n) == IF n <= 0 THEN <<>> ELSE << <<c, n>> >>

RECURSIVE Str(_)
\* a string literal, given as the tuple of its characters
Str(cs) == IF cs = <<>> THEN <<>> ELSE Cat(Repeat(cs[1], 1), Str(Tail(cs)))

RECURSIVE SumRuns(_, _, _)
SumRuns(s, lo, hi) ==
    IF lo > hi THEN 0
    ELSE IF lo = hi THEN s[lo][2]
    ELSE LET mid == (lo + hi) \div 2
         IN  SumRuns(s, lo, mid) + SumRuns(s, mid + 1, hi)

\* wstring::size()
Size(s) == SumRuns(s, 1, Len(s))

RECURSIVE PrefixRuns(_, _)
PrefixRuns(s, k) ==
    IF k <= 0 \/ s = <<>> THEN <<>>
    ELSE IF s[1][2] >= k THEN << <<s[1][1], k>> >>
    ELSE <<s[1]>> \o PrefixRuns(Tail(s), k - s[1][2])

\* the first k characters of s (wstring(buffer, k))
Prefix(s, k) == IF k >= Size(s) THEN s ELSE PrefixRuns(s, k)

Digit(d) == CASE d = 0 -> "0" [] d = 1 -> "1" [] d = 2 -> "2" [] d = 3 -> "3"
              [] d = 4 -> "4" [] d = 5 -> "5" [] d = 6 -> "6" [] d = 7 -> "7"
              [] d = 8 -> "8" [] d = 9 -> "9"

RECURSIVE Digits(_)
\* the decimal digits of n >= 0, as a tuple of characters
Digits(n) == IF n < 10 THEN <<Digit(n)>>
             ELSE Append(Digits(n \div 10), Digit(n % 10))

\* wstringstream << i
IntToString(i) == IF i < 0 THEN Str(<<"-">> \o Digits(0 - i)) ELSE Str(Digits(i))

(***************************************************************************)
(* Command line.  An argument is the tuple of its characters.              *)
(***************************************************************************)
DigitVal(c) == CASE c = "0" -> 0 [] c = "1" -> 1 [] c = "2" -> 2 [] c = "3" -> 3
                 [] c = "4" -> 4 [] c = "5" -> 5 [] c = "6" -> 6 [] c = "7" -> 7
                 [] c = "8" -> 8 [] c = "9" -> 9 [] OTHER -> 0 - 1

RECURSIVE AtoiDigits(_, _)
AtoiDigits(cs, acc) ==
    IF cs = <<>> \/ DigitVal(cs[1]) < 0 THEN acc
    ELSE AtoiDigits(Tail(cs), acc * 10 + DigitVal(cs[1]))

\* atoi: an optional sign, then the leading digits; 0 when there are none
Atoi(cs) ==
    IF cs # <<>> /\ cs[1] = "-" THEN 0 - AtoiDigits(Tail(cs), 0)
    ELSE IF cs # <<>> /\ cs[1] = "+" THEN AtoiDigits(Tail(cs), 0)
    ELSE AtoiDigits(cs, 0)

GetArg(args, index, def_value) ==
    IF Len(args) > index /\ args[index + 1] # <<"_">>
    THEN Atoi(args[index + 1])
    ELSE def_value

(***************************************************************************)
(* UNICODE_STRING: Length and MaximumLength are 16-bit byte counts.        *)
(***************************************************************************)
WCharBytes == 2
UShortMod == 65536

UnicodeString(str) ==
    [Length        |-> (Size(str) * WCharBytes) % UShortMod,
     MaximumLength |-> (Size(str) * WCharBytes) % UShortMod,
     Buffer        |-> str]

\* the characters a callee reads from a UNICODE_STRING
UStr(u) == Prefix(u.Buffer, u.Length \div WCharBytes)

MakeNullString(count) == Repeat(NUL, count)

MakeCollisionName(count) == Cat(MakeNullString(count), Str(<<"A">>))

BaseNamedObjects ==
    Str(<<"\\", "B", "a", "s", "e", "N", "a", "m", "e", "d",
          "O", "b", "j", "e", "c", "t", "s">>)

\* L"\\BaseNamedObjects\\A"
BaseA == Cat(BaseNamedObjects, Str(<<"\\", "A">>))

\* L"\\BaseNamedObjects\\{2F2C4C1D-FD52-47CA-BF97-CA72B6CA55F8}"
Test1Name ==
    Cat(BaseNamedObjects,
        Str(<<"\\", "{", "2", "F", "2", "C", "4", "C", "1", "D", "-",
              "F", "D", "5", "2", "-", "4", "7", "C", "A", "-",
              "B", "F", "9", "7", "-",
              "C", "A", "7", "2", "B", "6", "C", "A", "5", "5", "F", "8", "}">>))

(***************************************************************************)
(* The object manager, as far as the scenarios use it.  objs is the table  *)
(* of objects ever created (index = object id); object 1 is the namespace  *)
(* root "\", object 2 the pre-existing directory \BaseNamedObjects.  href  *)
(* is the process handle table (index = handle value; open is FALSE once   *)
(* the handle is closed); handle values are not reused.                    *)
(***************************************************************************)
NullHandle == 0
\* a value that is no handle of the process
InvalidValue == 0 - 1

RootObj == 1
BaseObj == 2

InitObjs ==
    << [t |-> "dir", parent |-> 0, name |-> <<>>, target |-> <<>>,
        shadow |-> 0, linked |-> TRUE, perm |-> TRUE],
       [t |-> "dir", parent |-> RootObj, name |-> Tail(BaseNamedObjects),
        target |-> <<>>, shadow |-> 0, linked |-> TRUE, perm |-> TRUE] >>

STATUS_SUCCESS == "STATUS_SUCCESS"
NT_ERROR(status) == status # STATUS_SUCCESS

IsOpen(hr, v) == v \in 1..Len(hr) /\ hr[v].open

RECURSIVE SplitRuns(_, _, _)
\* the pieces of the runs s[lo..hi] between backslashes; the first and the
\* last piece continue into the neighbouring runs
SplitRuns(s, lo, hi) ==
    IF lo > hi THEN << <<>> >>
    ELSE IF lo = hi
         THEN IF s[lo][1] = "\\" THEN [j \in 1..(s[lo][2] + 1) |-> <<>>]
              ELSE << <<s[lo]>> >>
         ELSE LET mid == (lo + hi) \div 2
                  l   == SplitRuns(s, lo, mid)
                  r   == SplitRuns(s, mid + 1, hi)
              IN  SubSeq(l, 1, Len(l) - 1) \o <<l[Len(l)] \o r[1]>> \o Tail(r)

\* the components of a path: the pieces between backslashes
Components(s) == SplitRuns(s, 1, Len(s))

Child(ob, dir, name) ==
    LET cs == {o \in 1..Len(ob) :
                  ob[o].linked /\ ob[o].parent = dir /\ ob[o].name = name}
    IN  IF cs = {} THEN 0 ELSE CHOOSE o \in cs : TRUE

RECURSIVE ChildSh(_, _, _, _)
\* a lookup in dir that misses is repeated in dir's shadow directory
ChildSh(ob, dir, name, fuel) ==
    LET c == Child(ob, dir, name)
    IN  IF c # 0 THEN c
        ELSE IF ob[dir].shadow # 0 /\ fuel > 0
             THEN ChildSh(ob, ob[dir].shadow, name, fuel - 1)
             ELSE 0

RECURSIVE Walk(_, _, _, _, _)
\* walks comps[lo..hi] from dir, one component after the other, up to the
\* end, a component that is not there, or a symbolic link
Walk(ob, dir, comps, lo, hi) ==
    IF lo > hi THEN [kind |-> "ok", obj |-> dir, at |-> hi]
    ELSE IF lo = hi
         THEN LET c == IF ob[dir].t # "dir" THEN 0
                       ELSE ChildSh(ob, dir, comps[lo], Len(ob))
              IN  IF c = 0 THEN [kind |-> "miss", obj |-> 0, at |-> lo]
                  ELSE IF ob[c].t = "link" THEN [kind |-> "link", obj |-> c, at |-> lo]
                  ELSE [kind |-> "ok", obj |-> c, at |-> lo]
         ELSE LET mid == (lo + hi) \div 2
                  l   == Walk(ob, dir, comps, lo, mid)
              IN  IF l.kind # "ok" THEN l ELSE Walk(ob, l.obj, comps, mid + 1, hi)

RECURSIVE Resolve(_, _, _, _, _)
\* walks comps[k..] from directory dir; a symbolic link met on the way
\* restarts the walk at the root with its target followed by the rest
Resolve(ob, dir, comps, k, hops) ==
    LET w == Walk(ob, dir, comps, k, Len(comps))
    IN  IF w.kind = "ok" THEN [ok |-> TRUE, obj |-> w.obj, hops |-> hops]
        ELSE IF w.kind = "miss" \/ hops >= Len(ob)
        THEN [ok |-> FALSE, obj |-> 0, hops |-> hops]
        ELSE LET tc == Components(ob[w.obj].target)
             IN  IF tc[1] # <<>>
                 THEN [ok |-> FALSE, obj |-> 0, hops |-> hops]
                 ELSE Resolve(ob, RootObj,
                              tc \o SubSeq(comps, w.at + 1, Len(comps)),
                              2, hops + 1)

\* the directory a name is relative to, and the name's components
StartOf(ob, hr, name, root) ==
    LET cs == Components(name)
    IN  IF root = NullHandle
        THEN IF Len(cs) >= 2 /\ cs[1] = <<>>
             THEN [ok |-> TRUE, dir |-> RootObj, comps |-> Tail(cs)]
             ELSE [ok |-> FALSE, dir |-> 0, comps |-> <<>>]
        ELSE IF IsOpen(hr, root) /\ cs[1] # <<>>
             THEN [ok |-> TRUE, dir |-> hr[root].obj, comps |-> cs]
             ELSE [ok |-> FALSE, dir |-> 0, comps |-> <<>>]

Lookup(ob, hr, name, root) ==
    LET st == StartOf(ob, hr, name, root)
    IN  IF st.ok THEN Resolve(ob, st.dir, st.comps, 1, 0)
        ELSE [ok |-> FALSE, obj |-> 0, hops |-> 0]

\* NtOpenEvent, NtOpenDirectoryObject
NtOpen(ob, hr, type, uname, root) ==
    LET r == Lookup(ob, hr, UStr(uname), root)
    IN  IF ~r.ok
        THEN [status |-> "STATUS_OBJECT_NAME_NOT_FOUND", objs |-> ob, href |-> hr,
              h |-> NullHandle, hops |-> r.hops]
        ELSE IF ob[r.obj].t # type
        THEN [status |-> "STATUS_OBJECT_TYPE_MISMATCH", objs |-> ob, href |-> hr,
              h |-> NullHandle, hops |-> r.hops]
        ELSE [status |-> STATUS_SUCCESS, objs |-> ob,
              href |-> Append(hr, [obj |-> r.obj, root |-> root, open |-> TRUE]),
              h |-> Len(hr) + 1, hops |-> r.hops]

\* NtCreateEvent, NtCreateDirectoryObjectEx, NtCreateSymbolicLinkObject
NtCreate(ob, hr, type, uname, root, utarget, shadow) ==
    LET st  == StartOf(ob, hr, UStr(uname), root)
        n   == Len(st.comps)
        par == IF st.ok THEN Resolve(ob, st.dir, SubSeq(st.comps, 1, n - 1), 1, 0)
               ELSE [ok |-> FALSE, obj |-> 0, hops |-> 0]
        bad(s) == [status |-> s, objs |-> ob, href |-> hr, h |-> NullHandle, hops |-> 0]
    IN  IF ~st.ok \/ ~par.ok THEN bad("STATUS_OBJECT_PATH_NOT_FOUND")
        ELSE IF ob[par.obj].t # "dir" THEN bad("STATUS_OBJECT_TYPE_MISMATCH")
        ELSE IF st.comps[n] = <<>> THEN bad("STATUS_OBJECT_NAME_INVALID")
        ELSE IF shadow # NullHandle /\ ~IsOpen(hr, shadow) THEN bad("STATUS_INVALID_HANDLE")
        ELSE IF Child(ob, par.obj, st.comps[n]) # 0 THEN bad("STATUS_OBJECT_NAME_COLLISION")
        ELSE [status |-> STATUS_SUCCESS,
              objs |-> Append(ob, [t |-> type, parent |-> par.obj, name |-> st.comps[n],
                                   target |-> IF type = "link" THEN UStr(utarget) ELSE <<>>,
                                   shadow |-> IF shadow = NullHandle THEN 0 ELSE hr[shadow].obj,
                                   linked |-> TRUE, perm |-> FALSE]),
              href |-> Append(hr, [obj |-> Len(ob) + 1, root |-> root, open |-> TRUE]),
              h |-> Len(hr) + 1, hops |-> 0]

RECURSIVE Climb(_, _, _)
\* the path of o below its n-th ancestor (or the root), and that ancestor
Climb(ob, o, n) ==
    IF n = 0 \/ o = RootObj \/ o = 0 THEN [top |-> o, path |-> <<>>]
    ELSE LET r == Climb(ob, ob[o].parent, n - 1)
         IN  [top |-> r.top, path |-> Cat(r.path, Cat(Str(<<"\\">>), ob[o].name))]

RECURSIVE PathOf(_, _)
\* the full path of object o, gathered 32 levels at a time
PathOf(ob, o) ==
    LET r == Climb(ob, o, 32)
    IN  IF r.top = RootObj \/ r.top = 0 THEN r.path
        ELSE Cat(PathOf(ob, r.top), r.path)

\* NtQueryObject(handle, ObjectNameInformation): the object's full path
NtQueryName(ob, hr, h) ==
    IF IsOpen(hr, h) THEN [status |-> STATUS_SUCCESS, name |-> PathOf(ob, hr[h].obj)]
    ELSE [status |-> "STATUS_INVALID_HANDLE", name |-> <<>>]

\* CloseHandle: the last handle of a temporary object takes its name out of
\* the namespace; a value that is no open handle changes nothing
CloseHandle(os, v) ==
    IF ~IsOpen(os.href, v) THEN os
    ELSE LET o    == os.href[v].obj
             hr2  == [os.href EXCEPT ![v].open = FALSE]
             last == \A w \in 1..Len(hr2) : hr2[w].open => hr2[w].obj # o
         IN  [href |-> hr2,
              objs |-> IF last /\ ~os.objs[o].perm
                       THEN [os.objs EXCEPT ![o].linked = FALSE]
                       ELSE os.objs]

(***************************************************************************)
(* Program state.                                                          *)
(*   argv       the command line after the program name                    *)
(*   pc         the statement the program is at                            *)
(*   loc        the running scenario's non-handle locals                   *)
(*   rt         RunTest's parameters and loop counter while it runs        *)
(*   stack      the live handle-holding locals, in order of construction:  *)
(*              [var, vec, hs]; hs holds the m_handle of a ScopedHandle,   *)
(*              or those of the elements of a vector<ScopedHandle>         *)
(*   objs, href the object manager's objects and the handle table          *)
(*   lastOp     the last namespace call and its status; nOps counts them   *)
(*   timer      the live Timer and the namespace calls made since its      *)
(*              construction; timeLog the GetTime calls                    *)
(*   out        the lines printed                                          *)
(*   exc        the status carried by the NtException in flight            *)
(*   rc         main's return value (-1 while running)                     *)
(*   badClose   the CloseHandle calls whose argument was neither null nor  *)
(*              an open handle held by the object destroyed                *)
(*   closedNull whether CloseHandle(nullptr) has been called               *)
(*   vecOrder   the order in which the build's vector destroys elements    *)
(*   faults     whether the system may fail a call for a reason outside    *)
(*              the model (access denied, a name left by another process)  *)
(***************************************************************************)
VARIABLES argv, pc, loc, rt, stack, objs, href, lastOp, nOps, timer, timeLog,
          out, exc, rc, badClose, closedNull, vecOrder, faults

vars == <<argv, pc, loc, rt, stack, objs, href, lastOp, nOps, timer, timeLog,
          out, exc, rc, badClose, closedNull, vecOrder, faults>>

DefIterations == 1000
DefIterations4 == 10
DefDirCount == 16000
DefSymlinks4 == 63
DefSymlinks8 == 1
DefCollisions == 32000
DefCollisions8 == 16000
SampleEvery == 500
\* a Test2 that goes on for two more steps
MaxPathLenLonger == 32000 + 1000

MaxPathLen == 32000
PathStep == 500

test_no == IF argv = <<>> THEN 0 ELSE Atoi(argv[1])
args == IF argv = <<>> THEN <<>> ELSE Tail(argv)

iterations == GetArg(args, 0, IF test_no = 4 THEN DefIterations4 ELSE DefIterations)
dir_count == GetArg(args, 1, DefDirCount)
symlink_count == GetArg(args, 2, IF test_no = 4 THEN DefSymlinks4 ELSE DefSymlinks8)
collision_count ==
    IF test_no = 6 THEN GetArg(args, 0, DefCollisions)
    ELSE IF test_no = 8 THEN GetArg(args, 3, DefCollisions8)
    ELSE GetArg(args, 1, DefCollisions)

NoRt == [active |-> FALSE, name |-> <<>>, create_name |-> <<>>, root |-> NullHandle,
         iterations |-> 0, i |-> 0, base |-> 0, ret |-> "none"]

InitLoc == [i |-> 0, j |-> 0, path |-> <<>>, last_dir |-> NullHandle,
            last_dir_name |-> <<>>, names |-> <<>>]

NoOp == [op |-> "none", name |-> <<>>, root |-> NullHandle, target |-> <<>>,
         status |-> STATUS_SUCCESS, len |-> 0, tlen |-> 0, hops |-> 0]

NoTimer == [running |-> FALSE, ops |-> 0]
\* Timer(): m_start = now()
StartTimer == [running |-> TRUE, ops |-> 0]
Tick(t) == IF t.running THEN [t EXCEPT !.ops = @ + 1] ELSE t

Line(kind, f1) == [kind |-> kind, f1 |-> f1]

Local(var, vec, hs) == [var |-> var, vec |-> vec, hs |-> hs]
IndexOf(st, var) == CHOOSE k \in 1..Len(st) : st[k].var = var
\* var.get()
HandleOf(st, var) == st[IndexOf(st, var)].hs[1]
EmplaceBack(st, var, h) == [st EXCEPT ![IndexOf(st, var)].hs = Append(@, h)]

Obs == [href |-> href, objs |-> objs, bad |-> badClose, null |-> closedNull]

\* ~ScopedHandle() of an object that holds v, obtained from the system or null
CloseOwned(ob, v) ==
    IF v = NullHandle THEN [ob EXCEPT !.null = TRUE]
    ELSE LET os2 == CloseHandle([href |-> ob.href, objs |-> ob.objs], v)
         IN  [href |-> os2.href, objs |-> os2.objs, null |-> ob.null,
              bad  |-> IF IsOpen(ob.href, v) THEN ob.bad
                       ELSE Append(ob.bad, [h |-> v, why |-> "closed before"])]

\* ~ScopedHandle() of a default-constructed object whose m_handle was never
\* written: the member has no initializer, its value is whatever g was there
CloseUninit(ob, g) ==
    IF g = NullHandle THEN [ob EXCEPT !.null = TRUE]
    ELSE LET os2 == CloseHandle([href |-> ob.href, objs |-> ob.objs], g)
         IN  [href |-> os2.href, objs |-> os2.objs, null |-> ob.null,
              bad  |-> Append(ob.bad, [h |-> g, why |-> "uninitialised"])]

\* the values an uninitialised m_handle is drawn from: null, a value that is
\* no handle, and handle values the caller has just used
Garbage(root) ==
    {NullHandle, InvalidValue} \cup {v \in {root, Len(href)} : IsOpen(href, v)}

FailChoices == IF faults THEN BOOLEAN ELSE {FALSE}

OpRec(opname, name, root, target, status, hops) ==
    [op |-> opname, name |-> name, root |-> root, target |-> target, status |-> status,
     len |-> UnicodeString(name).Length, tlen |-> UnicodeString(target).Length,
     hops |-> hops]

\* The possible results of  ScopedHandle handle; Check(Nt...(handle.ptr(), ...));
\* return handle;  given the system call's result r.  The call can also fail
\* for a reason outside the model (fail).  temp: the returned object is moved
\* from once more (emplace_back) and the temporary destroyed.
HandleResults(r, opname, name, root, target, temp) ==
    { IF fail \/ NT_ERROR(r.status)
      THEN LET st == IF NT_ERROR(r.status) THEN r.status ELSE "STATUS_ACCESS_DENIED"
               c  == CloseUninit(Obs, g)
           IN  [ok |-> FALSE, status |-> st, h |-> NullHandle, objs |-> c.objs,
                href |-> c.href, bad |-> c.bad, null |-> c.null,
                op |-> OpRec(opname, name, root, target, st, r.hops)]
      ELSE [ok |-> TRUE, status |-> r.status, h |-> r.h, objs |-> r.objs,
            href |-> r.href, bad |-> badClose, null |-> (closedNull \/ temp \/ moved),
            op |-> OpRec(opname, name, root, target, r.status, r.hops)]
      : fail \in FailChoices, g \in Garbage(root), moved \in BOOLEAN }

CreateDirectory(name, root, shadow_dir, temp) ==
    HandleResults(NtCreate(objs, href, "dir", UnicodeString(name), root,
                           UnicodeString(<<>>), shadow_dir),
                  "create_dir", name, root, <<>>, temp)

OpenDirectory(name, root) ==
    HandleResults(NtOpen(objs, href, "dir", UnicodeString(name), root),
                  "open_dir", name, root, <<>>, FALSE)

CreateLink(name, root, target) ==
    HandleResults(NtCreate(objs, href, "link", UnicodeString(name), root,
                           UnicodeString(target), NullHandle),
                  "create_link", name, root, target, TRUE)

CreateEvent(name, root) ==
    HandleResults(NtCreate(objs, href, "event", UnicodeString(name), root,
                           UnicodeString(<<>>), NullHandle),
                  "create_event", name, root, <<>>, FALSE)

\* HANDLE open_handle; Check(NtOpenEvent(&open_handle, ..., &obja))
OpenEvent(name) ==
    LET r == NtOpen(objs, href, "event", UnicodeString(name), NullHandle)
    IN  { IF fail \/ NT_ERROR(r.status)
          THEN LET st == IF NT_ERROR(r.status) THEN r.status ELSE "STATUS_ACCESS_DENIED"
               IN  [ok |-> FALSE, status |-> st, h |-> NullHandle, objs |-> objs,
                    href |-> href, bad |-> badClose, null |-> closedNull,
                    op |-> OpRec("open_event", name, NullHandle, <<>>, st, r.hops)]
          ELSE [ok |-> TRUE, status |-> r.status, h |-> r.h, objs |-> r.objs,
                href |-> r.href, bad |-> badClose, null |-> closedNull,
                op |-> OpRec("open_event", name, NullHandle, <<>>, r.status, r.hops)]
          : fail \in FailChoices }

\* GetName(handle): Check(NtQueryObject(...)); wstring(Buffer, Length / 2)
GetName(handle) ==
    LET r == NtQueryName(objs, href, handle)
    IN  { LET st == IF NT_ERROR(r.status) THEN r.status
                    ELSE IF fail THEN "STATUS_ACCESS_DENIED" ELSE r.status
          IN  [ok |-> ~NT_ERROR(st), status |-> st, h |-> NullHandle, name |-> r.name,
               objs |-> objs, href |-> href, bad |-> badClose, null |-> closedNull,
               op |-> OpRec("query_name", <<>>, handle, <<>>, st, 0)]
          : fail \in FailChoices }

\* what every namespace call leaves behind
ApplyOs(o) ==
    /\ objs' = o.objs
    /\ href' = o.href
    /\ badClose' = o.bad
    /\ closedNull' = o.null
    /\ lastOp' = o.op
    /\ nOps' = nOps + 1

\* a Check that never throws: the caller goes on with the handle left null
CheckNoThrow(o, succ) ==
    /\ ApplyOs(o)
    /\ exc' = exc
    /\ succ

\* Check(status): throw NtException(status) when NT_ERROR(status), else go on
Check(o, succ) ==
    /\ ApplyOs(o)
    /\ exc' = IF o.ok THEN exc ELSE o.status
    /\ IF o.ok THEN succ
       ELSE /\ pc' = "unwind"
            /\ timer' = Tick(timer)
            /\ UNCHANGED <<loc, rt, stack>>

\* the call RunTest(name, iterations, create_name, root)
CallRunTest(name, iters, create_name, root, ret) ==
    /\ rt' = [active |-> TRUE, name |-> name,
              create_name |-> IF create_name = <<>> THEN name ELSE create_name,
              root |-> root, iterations |-> iters, i |-> 0,
              base |-> Len(stack), ret |-> ret]
    /\ pc' = "rt_create"

(***************************************************************************)
(* main                                                                    *)
(***************************************************************************)
TestPc(n) == CASE n = 1 -> "T1" [] n = 2 -> "T2" [] n = 3 -> "T3" [] n = 4 -> "T4"
               [] n = 5 -> "T5" [] n = 6 -> "T6" [] n = 7 -> "T7" [] n = 8 -> "T8"

Main ==
    /\ pc = "main"
    /\ IF Len(argv) < 1
       THEN /\ out' = Append(out, Line("help", 0))
            /\ rc' = 1
            /\ pc' = "done"
       ELSE IF test_no \in 1..8
       THEN /\ pc' = TestPc(test_no)
            /\ UNCHANGED <<out, rc>>
       ELSE /\ out' = out \o <<Line("unknown", test_no), Line("help", 0)>>
            /\ rc' = 1
            /\ pc' = "done"
    /\ UNCHANGED <<argv, loc, rt, stack, objs, href, lastOp, nOps, timer, timeLog,
                   exc, badClose, closedNull, vecOrder, faults>>

\* catch (const NtException& ex): reached once every local is destroyed
Catch ==
    /\ pc = "unwind"
    /\ stack = <<>>
    /\ out' = Append(out, Line("error", exc))
    /\ rc' = 0
    /\ pc' = "done"
    /\ rt' = NoRt
    /\ UNCHANGED <<argv, loc, stack, objs, href, lastOp, nOps, timer, timeLog,
                   exc, badClose, closedNull, vecOrder, faults>>

\* a scenario returns: break; return 0
ScopeDone ==
    /\ pc = "exit_scope"
    /\ stack = <<>>
    /\ rc' = 0
    /\ pc' = "done"
    /\ UNCHANGED <<argv, loc, rt, stack, objs, href, lastOp, nOps, timer, timeLog,
                   out, exc, badClose, closedNull, vecOrder, faults>>

(***************************************************************************)
(* Scope exit.  The locals of the scope left (RunTest's on its return, all *)
(* of them when the scenario returns or an exception unwinds) are          *)
(* destroyed in reverse order of construction; the elements of a vector in *)
(* the order the build's vector destroys them.  One destructor per step.   *)
(***************************************************************************)
ExitBase == IF pc = "rt_exit" THEN rt.base ELSE 0

PopLocal ==
    /\ pc \in {"rt_exit", "exit_scope", "unwind"}
    /\ Len(stack) > ExitBase
    /\ LET n   == Len(stack)
           top == stack[n]
           k   == Len(top.hs)
           v   == IF k = 0 THEN NullHandle
                  ELSE IF vecOrder = "fwd" THEN top.hs[1] ELSE top.hs[k]
           c   == IF k = 0 THEN Obs ELSE CloseOwned(Obs, v)
       IN  /\ stack' = IF k <= 1 THEN SubSeq(stack, 1, n - 1)
                       ELSE [stack EXCEPT ![n].hs =
                                IF vecOrder = "fwd" THEN Tail(@)
                                ELSE SubSeq(@, 1, k - 1)]
           /\ objs' = c.objs
           /\ href' = c.href
           /\ badClose' = c.bad
           /\ closedNull' = c.null
    /\ UNCHANGED <<argv, pc, loc, rt, lastOp, nOps, timer, timeLog, out, exc, rc,
                   vecOrder, faults>>

(***************************************************************************)
(* RunTest                                                                 *)
(***************************************************************************)
RT_Create ==
    /\ pc = "rt_create"
    /\ \E o \in CreateEvent(rt.create_name, rt.root) :
          Check(o, /\ stack' = stack \o <<Local("event_handle", FALSE, <<o.h>>),
                                          Local("handles", TRUE, <<>>)>>
                   /\ timer' = StartTimer
                   /\ pc' = "rt_loop"
                   /\ UNCHANGED <<loc, rt>>)
    /\ UNCHANGED <<argv, timeLog, out, rc, vecOrder, faults>>

RT_Open ==
    /\ pc = "rt_loop"
    /\ rt.i < rt.iterations
    /\ \E o \in OpenEvent(rt.name) :
          Check(o, /\ stack' = EmplaceBack(stack, "handles", o.h)
                   /\ rt' = [rt EXCEPT !.i = @ + 1]
                   /\ timer' = Tick(timer)
                   /\ UNCHANGED <<pc, loc>>)
    /\ UNCHANGED <<argv, timeLog, out, rc, vecOrder, faults>>

\* Timer::GetTime(iterations): elapsed / iterations
GetTime(iters) ==
    /\ timeLog' = Append(timeLog, [iterations |-> iters, ops |-> timer.ops,
                                   at |-> pc])
    /\ timer' = NoTimer

\* a RunTest whose event and opened handles outlive the call
RT_ReturnKeep ==
    /\ pc = "rt_loop"
    /\ rt.i >= rt.iterations
    /\ GetTime(rt.iterations)
    /\ pc' = rt.ret
    /\ rt' = NoRt
    /\ UNCHANGED <<argv, loc, stack, objs, href, lastOp, nOps, out, exc, rc,
                   badClose, closedNull, vecOrder, faults>>

RT_Return ==
    /\ pc = "rt_loop"
    /\ rt.i >= rt.iterations
    /\ GetTime(rt.iterations)
    /\ pc' = "rt_exit"
    /\ UNCHANGED <<argv, loc, rt, stack, objs, href, lastOp, nOps, out, exc, rc,
                   badClose, closedNull, vecOrder, faults>>

RT_Done ==
    /\ pc = "rt_exit"
    /\ Len(stack) = rt.base
    /\ pc' = rt.ret
    /\ rt' = NoRt
    /\ UNCHANGED <<argv, loc, stack, objs, href, lastOp, nOps, timer, timeLog,
                   out, exc, rc, badClose, closedNull, vecOrder, faults>>

(***************************************************************************)
(* Test1, Test2                                                            *)
(***************************************************************************)
Test1 ==
    /\ pc = "T1"
    /\ CallRunTest(Test1Name, iterations, <<>>, NullHandle, "T1_print")
    /\ UNCHANGED <<argv, loc, stack, objs, href, lastOp, nOps, timer, timeLog,
                   out, exc, rc, badClose, closedNull, vecOrder, faults>>

Test1Print ==
    /\ pc = "T1_print"
    /\ out' = Append(out, Line("report", iterations))
    /\ pc' = "exit_scope"
    /\ UNCHANGED <<argv, loc, rt, stack, objs, href, lastOp, nOps, timer, timeLog,
                   exc, rc, badClose, closedNull, vecOrder, faults>>

Test2Name(path) == Cat(BaseA, path)

Test2 ==
    /\ pc = "T2"
    /\ Size(loc.path) <= MaxPathLen
    /\ CallRunTest(Test2Name(loc.path), iterations, <<>>, NullHandle, "T2_print")
    /\ UNCHANGED <<argv, loc, stack, objs, href, lastOp, nOps, timer, timeLog,
                   out, exc, rc, badClose, closedNull, vecOrder, faults>>

Test2Print ==
    /\ pc = "T2_print"
    /\ out' = Append(out, Line("sample", Size(loc.path)))
    /\ loc' = [loc EXCEPT !.path = Cat(@, Repeat("A", PathStep))]
    /\ pc' = "T2"
    /\ UNCHANGED <<argv, rt, stack, objs, href, lastOp, nOps, timer, timeLog,
                   exc, rc, badClose, closedNull, vecOrder, faults>>

Test2End ==
    /\ pc = "T2"
    /\ Size(loc.path) > MaxPathLen
    /\ pc' = "exit_scope"
    /\ UNCHANGED <<argv, loc, rt, stack, objs, href, lastOp, nOps, timer, timeLog,
                   out, exc, rc, badClose, closedNull, vecOrder, faults>>

(***************************************************************************)
(* Test3: nested directories, sampled every 500                            *)
(***************************************************************************)
Test3Open ==
    /\ pc = "T3"
    /\ \E o \in OpenDirectory(BaseNamedObjects, NullHandle) :
          Check(o, /\ stack' = stack \o <<Local("base_dir", FALSE, <<o.h>>),
                                          Local("dirs", TRUE, <<>>)>>
                   /\ loc' = [loc EXCEPT !.last_dir = o.h, !.i = 0]
                   /\ timer' = Tick(timer)
                   /\ pc' = "T3_loop"
                   /\ UNCHANGED rt)
    /\ UNCHANGED <<argv, timeLog, out, rc, vecOrder, faults>>

Test3Create ==
    /\ pc = "T3_loop"
    /\ loc.i < dir_count
    /\ \E o \in CreateDirectory(Str(<<"A">>), loc.last_dir, NullHandle, TRUE) :
          Check(o, /\ stack' = EmplaceBack(stack, "dirs", o.h)
                   /\ timer' = Tick(timer)
                   /\ IF loc.i % SampleEvery = 0
                      THEN /\ loc' = [loc EXCEPT !.last_dir = o.h]
                           /\ pc' = "T3_name"
                      ELSE /\ loc' = [loc EXCEPT !.last_dir = o.h, !.i = @ + 1]
                           /\ pc' = "T3_loop"
                   /\ UNCHANGED rt)
    /\ UNCHANGED <<argv, timeLog, out, rc, vecOrder, faults>>

Test3Sample ==
    /\ pc = "T3_name"
    /\ \E o \in GetName(loc.last_dir) :
          Check(o, /\ CallRunTest(Cat(o.name, Str(<<"\\", "X">>)), iterations, <<>>,
                                  NullHandle, "T3_print")
                   /\ timer' = Tick(timer)
                   /\ UNCHANGED <<loc, stack>>)
    /\ UNCHANGED <<argv, timeLog, out, rc, vecOrder, faults>>

\* a Test3 that prints the loop index instead of the directory count
Test3PrintIndex ==
    /\ pc = "T3_print"
    /\ out' = Append(out, Line("sample", loc.i))
    /\ loc' = [loc EXCEPT !.i = @ + 1]
    /\ pc' = "T3_loop"
    /\ UNCHANGED <<argv, rt, stack, objs, href, lastOp, nOps, timer, timeLog,
                   exc, rc, badClose, closedNull, vecOrder, faults>>

Test3Print ==
    /\ pc = "T3_print"
    /\ out' = Append(out, Line("sample", loc.i + 1))
    /\ loc' = [loc EXCEPT !.i = @ + 1]
    /\ pc' = "T3_loop"
    /\ UNCHANGED <<argv, rt, stack, objs, href, lastOp, nOps, timer, timeLog,
                   exc, rc, badClose, closedNull, vecOrder, faults>>

Test3End ==
    /\ pc = "T3_loop"
    /\ loc.i >= dir_count
    /\ pc' = "exit_scope"
    /\ UNCHANGED <<argv, loc, rt, stack, objs, href, lastOp, nOps, timer, timeLog,
                   out, exc, rc, badClose, closedNull, vecOrder, faults>>

(***************************************************************************)
(* Test4: nested directories, then a chain of symbolic links               *)
(***************************************************************************)
Test4Open ==
    /\ pc = "T4"
    /\ \E o \in OpenDirectory(BaseNamedObjects, NullHandle) :
          Check(o, /\ stack' = stack \o <<Local("base_dir", FALSE, <<o.h>>),
                                          Local("dirs", TRUE, <<>>)>>
                   /\ loc' = [loc EXCEPT !.last_dir = o.h, !.i = 0]
                   /\ timer' = Tick(timer)
                   /\ pc' = "T4_dirs"
                   /\ UNCHANGED rt)
    /\ UNCHANGED <<argv, timeLog, out, rc, vecOrder, faults>>

Test4Create ==
    /\ pc = "T4_dirs"
    /\ loc.i < dir_count
    /\ \E o \in CreateDirectory(Str(<<"A">>), loc.last_dir, NullHandle, TRUE) :
          Check(o, /\ stack' = EmplaceBack(stack, "dirs", o.h)
                   /\ loc' = [loc EXCEPT !.last_dir = o.h, !.i = @ + 1]
                   /\ timer' = Tick(timer)
                   /\ UNCHANGED <<pc, rt>>)
    /\ UNCHANGED <<argv, timeLog, out, rc, vecOrder, faults>>

\* vector<ScopedHandle> links; wstring last_dir_name = GetName(last_dir);
Test4Name ==
    /\ pc = "T4_dirs"
    /\ loc.i >= dir_count
    /\ \E o \in GetName(loc.last_dir) :
          /\ ApplyOs(o)
          /\ exc' = IF o.ok THEN exc ELSE o.status
          /\ stack' = Append(stack, Local("links", TRUE, <<>>))
          /\ loc' = IF o.ok THEN [loc EXCEPT !.last_dir_name = o.name, !.i = 0] ELSE loc
          /\ pc' = IF o.ok THEN "T4_links" ELSE "unwind"
    /\ timer' = Tick(timer)
    /\ UNCHANGED <<argv, rt, timeLog, out, rc, vecOrder, faults>>

\* a link that names itself instead of its successor
LinkTargetSelf(last_dir_name, i) ==
    Cat(last_dir_name, Cat(Str(<<"\\">>), IntToString(i)))

LinkTarget(last_dir_name, i) ==
    Cat(last_dir_name, Cat(Str(<<"\\">>), IntToString(i + 1)))

Test4Link ==
    /\ pc = "T4_links"
    /\ loc.i < symlink_count
    /\ \E o \in CreateLink(IntToString(loc.i), loc.last_dir,
                           LinkTarget(loc.last_dir_name, loc.i)) :
          Check(o, /\ stack' = EmplaceBack(stack, "links", o.h)
                   /\ loc' = [loc EXCEPT !.i = @ + 1]
                   /\ timer' = Tick(timer)
                   /\ UNCHANGED <<pc, rt>>)
    /\ UNCHANGED <<argv, timeLog, out, rc, vecOrder, faults>>

\* RunTest(links.front().name(), iterations, IntToString(symlink_count), last_dir).
\* front() of an empty vector is undefined: the read of m_handle faults, or
\* yields some value.
Test4Run ==
    /\ pc = "T4_links"
    /\ loc.i >= symlink_count
    /\ LET links == stack[IndexOf(stack, "links")].hs
       IN  \E crash \in IF links = <<>> THEN BOOLEAN ELSE {FALSE} :
           \E h \in IF links = <<>> THEN Garbage(loc.last_dir) ELSE {links[1]} :
              IF crash
              THEN /\ pc' = "crashed"
                   /\ UNCHANGED <<loc, rt, stack, objs, href, lastOp, nOps, timer,
                                  exc, badClose, closedNull>>
              ELSE \E o \in GetName(h) :
                      Check(o, /\ CallRunTest(o.name, iterations,
                                              IntToString(symlink_count),
                                              loc.last_dir, "T4_print")
                               /\ timer' = Tick(timer)
                               /\ UNCHANGED <<loc, stack>>)
    /\ UNCHANGED <<argv, timeLog, out, rc, vecOrder, faults>>

Test4Print ==
    /\ pc = "T4_print"
    /\ out' = Append(out, Line("report", iterations))
    /\ pc' = "exit_scope"
    /\ UNCHANGED <<argv, loc, rt, stack, objs, href, lastOp, nOps, timer, timeLog,
                   exc, rc, badClose, closedNull, vecOrder, faults>>

(***************************************************************************)
(* Test5, Test6: colliding names in one directory                          *)
(***************************************************************************)
\* a generator that forgets the loop index
CollisionNameSame(count, i) == MakeCollisionName(count)

CollisionName(count, i) == MakeCollisionName(count - i)

Test5Base ==
    /\ pc = "T5"
    /\ \E o \in CreateDirectory(BaseA, NullHandle, NullHandle, FALSE) :
          Check(o, /\ stack' = stack \o <<Local("base_dir", FALSE, <<o.h>>),
                                          Local("dirs", TRUE, <<>>)>>
                   /\ loc' = [loc EXCEPT !.path = MakeCollisionName(collision_count),
                                         !.i = 0]
                   /\ timer' = Tick(timer)
                   /\ pc' = "T5_loop"
                   /\ UNCHANGED rt)
    /\ UNCHANGED <<argv, timeLog, out, rc, vecOrder, faults>>

Test5Create ==
    /\ pc = "T5_loop"
    /\ loc.i < collision_count
    /\ \E o \in CreateDirectory(CollisionName(collision_count, loc.i),
                                HandleOf(stack, "base_dir"), NullHandle, TRUE) :
          Check(o, /\ stack' = EmplaceBack(stack, "dirs", o.h)
                   /\ IF loc.i % SampleEvery = 0
                      THEN /\ timer' = StartTimer
                           /\ loc' = [loc EXCEPT !.j = 0]
                           /\ pc' = "T5_open"
                      ELSE /\ timer' = Tick(timer)
                           /\ loc' = [loc EXCEPT !.i = @ + 1]
                           /\ pc' = "T5_loop"
                   /\ UNCHANGED rt)
    /\ UNCHANGED <<argv, timeLog, out, rc, vecOrder, faults>>

\* OpenDirectory(base_dir_name, base_dir.get()); the handle returned is a
\* temporary, destroyed at the end of the statement
Test5Open ==
    /\ pc = "T5_open"
    /\ loc.j < iterations
    /\ \E o \in OpenDirectory(loc.path, HandleOf(stack, "base_dir")) :
          LET c == IF o.ok THEN CloseOwned([href |-> o.href, objs |-> o.objs,
                                            bad |-> o.bad, null |-> o.null], o.h)
                   ELSE [href |-> o.href, objs |-> o.objs, bad |-> o.bad,
                         null |-> o.null]
          IN  Check([o EXCEPT !.href = c.href, !.objs = c.objs, !.bad = c.bad,
                              !.null = c.null],
                    /\ loc' = [loc EXCEPT !.j = @ + 1]
                    /\ timer' = Tick(timer)
                    /\ UNCHANGED <<pc, rt, stack>>)
    /\ UNCHANGED <<argv, timeLog, out, rc, vecOrder, faults>>

Test5Print ==
    /\ pc = "T5_open"
    /\ loc.j >= iterations
    /\ GetTime(iterations)
    /\ out' = Append(out, Line("sample", loc.i))
    /\ loc' = [loc EXCEPT !.i = @ + 1]
    /\ pc' = "T5_loop"
    /\ UNCHANGED <<argv, rt, stack, objs, href, lastOp, nOps, exc, rc, badClose,
                   closedNull, vecOrder, faults>>

Test5End ==
    /\ pc = "T5_loop"
    /\ loc.i >= collision_count
    /\ pc' = "exit_scope"
    /\ UNCHANGED <<argv, loc, rt, stack, objs, href, lastOp, nOps, timer, timeLog,
                   out, exc, rc, badClose, closedNull, vecOrder, faults>>

\* for (i < collision_count) names.push_back(MakeCollisionName(collision_count - i))
Test6Names ==
    /\ pc = "T6"
    /\ loc' = [loc EXCEPT !.names = [k \in 1..collision_count |->
                                        CollisionName(collision_count, k - 1)]]
    /\ pc' = "T6_base"
    /\ UNCHANGED <<argv, rt, stack, objs, href, lastOp, nOps, timer, timeLog,
                   out, exc, rc, badClose, closedNull, vecOrder, faults>>

Test6Base ==
    /\ pc = "T6_base"
    /\ \E o \in CreateDirectory(BaseA, NullHandle, NullHandle, FALSE) :
          Check(o, /\ stack' = stack \o <<Local("base_dir", FALSE, <<o.h>>),
                                          Local("dirs", TRUE, <<>>)>>
                   /\ loc' = [loc EXCEPT !.i = 0]
                   /\ timer' = StartTimer
                   /\ pc' = "T6_loop"
                   /\ UNCHANGED rt)
    /\ UNCHANGED <<argv, timeLog, out, rc, vecOrder, faults>>

Test6Create ==
    /\ pc = "T6_loop"
    /\ loc.i < Len(loc.names)
    /\ \E o \in CreateDirectory(loc.names[loc.i + 1], HandleOf(stack, "base_dir"),
                                NullHandle, TRUE) :
          Check(o, /\ stack' = EmplaceBack(stack, "dirs", o.h)
                   /\ loc' = [loc EXCEPT !.i = @ + 1]
                   /\ timer' = Tick(timer)
                   /\ UNCHANGED <<pc, rt>>)
    /\ UNCHANGED <<argv, timeLog, out, rc, vecOrder, faults>>

\* a Test6 that averages over the number of insertions
Test6TimerArgCount == collision_count

Test6TimerArg == 1

Test6Print ==
    /\ pc = "T6_loop"
    /\ loc.i >= Len(loc.names)
    /\ GetTime(Test6TimerArg)
    /\ out' = Append(out, Line("report", Test6TimerArg))
    /\ pc' = "exit_scope"
    /\ UNCHANGED <<argv, loc, rt, stack, objs, href, lastOp, nOps, exc, rc,
                   badClose, closedNull, vecOrder, faults>>

(***************************************************************************)
(* Test7, Test8: a directory that is its child's shadow directory          *)
(***************************************************************************)
\* n times L"\\A"
RepeatSlashA(n) ==
    [k \in 1..(2 * n) |-> IF k % 2 = 1 THEN <<"\\", 1>> ELSE <<"A", 1>>]

Test7Shadow ==
    /\ pc = "T7"
    /\ \E o \in CreateDirectory(BaseA, NullHandle, NullHandle, FALSE) :
          Check(o, /\ stack' = Append(stack, Local("shadow_dir", FALSE, <<o.h>>))
                   /\ timer' = Tick(timer)
                   /\ pc' = "T7_target"
                   /\ UNCHANGED <<loc, rt>>)
    /\ UNCHANGED <<argv, timeLog, out, rc, vecOrder, faults>>

Test7Target ==
    /\ pc = "T7_target"
    /\ \E o \in CreateDirectory(Str(<<"A">>), HandleOf(stack, "shadow_dir"),
                                HandleOf(stack, "shadow_dir"), FALSE) :
          Check(o, /\ stack' = Append(stack, Local("target_dir", FALSE, <<o.h>>))
                   /\ loc' = [loc EXCEPT !.i = 0]
                   /\ timer' = Tick(timer)
                   /\ pc' = "T7_loop"
                   /\ UNCHANGED rt)
    /\ UNCHANGED <<argv, timeLog, out, rc, vecOrder, faults>>

Test7OpenName(i) == Cat(Cat(BaseA, RepeatSlashA(i)), Str(<<"\\", "X">>))

Test7Sample ==
    /\ pc = "T7_loop"
    /\ loc.i < dir_count
    /\ CallRunTest(Test7OpenName(loc.i), iterations, Str(<<"X">>),
                   HandleOf(stack, "shadow_dir"), "T7_print")
    /\ UNCHANGED <<argv, loc, stack, objs, href, lastOp, nOps, timer, timeLog,
                   out, exc, rc, badClose, closedNull, vecOrder, faults>>

Test7Print ==
    /\ pc = "T7_print"
    /\ out' = Append(out, Line("sample", loc.i))
    /\ loc' = [loc EXCEPT !.i = @ + SampleEvery]
    /\ pc' = "T7_loop"
    /\ UNCHANGED <<argv, rt, stack, objs, href, lastOp, nOps, timer, timeLog,
                   exc, rc, badClose, closedNull, vecOrder, faults>>

Test7End ==
    /\ pc = "T7_loop"
    /\ loc.i >= dir_count
    /\ pc' = "exit_scope"
    /\ UNCHANGED <<argv, loc, rt, stack, objs, href, lastOp, nOps, timer, timeLog,
                   out, exc, rc, badClose, closedNull, vecOrder, faults>>

Test8Shadow ==
    /\ pc = "T8"
    /\ \E o \in CreateDirectory(BaseA, NullHandle, NullHandle, FALSE) :
          Check(o, /\ stack' = Append(stack, Local("shadow_dir", FALSE, <<o.h>>))
                   /\ timer' = Tick(timer)
                   /\ pc' = "T8_target"
                   /\ UNCHANGED <<loc, rt>>)
    /\ UNCHANGED <<argv, timeLog, out, rc, vecOrder, faults>>

Test8Target ==
    /\ pc = "T8_target"
    /\ \E o \in CreateDirectory(Str(<<"A">>), HandleOf(stack, "shadow_dir"),
                                HandleOf(stack, "shadow_dir"), FALSE) :
          Check(o, /\ stack' = stack \o <<Local("target_dir", FALSE, <<o.h>>),
                                          Local("dirs", TRUE, <<>>)>>
                   /\ loc' = [loc EXCEPT !.i = 0]
                   /\ timer' = Tick(timer)
                   /\ pc' = "T8_coll"
                   /\ UNCHANGED rt)
    /\ UNCHANGED <<argv, timeLog, out, rc, vecOrder, faults>>

Test8Create ==
    /\ pc = "T8_coll"
    /\ loc.i < collision_count - 1
    /\ \E o \in CreateDirectory(CollisionName(collision_count, loc.i),
                                HandleOf(stack, "shadow_dir"), NullHandle, TRUE) :
          Check(o, /\ stack' = EmplaceBack(stack, "dirs", o.h)
                   /\ loc' = [loc EXCEPT !.i = @ + 1]
                   /\ timer' = Tick(timer)
                   /\ UNCHANGED <<pc, rt>>)
    /\ UNCHANGED <<argv, timeLog, out, rc, vecOrder, faults>>

\* last_dir_name = dir_name followed by dir_count times L"\\A"
Test8LastDirName(n) == Cat(BaseA, RepeatSlashA(n))

Test8Created ==
    /\ pc = "T8_coll"
    /\ loc.i >= collision_count - 1
    /\ loc' = [loc EXCEPT !.last_dir_name = Test8LastDirName(dir_count), !.i = 0]
    /\ out' = Append(out, Line("created", 0))
    /\ stack' = Append(stack, Local("links", TRUE, <<>>))
    /\ pc' = "T8_links"
    /\ UNCHANGED <<argv, rt, objs, href, lastOp, nOps, timer, timeLog, exc, rc,
                   badClose, closedNull, vecOrder, faults>>

Test8Link ==
    /\ pc = "T8_links"
    /\ loc.i < symlink_count
    /\ \E o \in CreateLink(IntToString(loc.i), HandleOf(stack, "shadow_dir"),
                           LinkTarget(loc.last_dir_name, loc.i)) :
          Check(o, /\ stack' = EmplaceBack(stack, "links", o.h)
                   /\ loc' = [loc EXCEPT !.i = @ + 1]
                   /\ timer' = Tick(timer)
                   /\ UNCHANGED <<pc, rt>>)
    /\ UNCHANGED <<argv, timeLog, out, rc, vecOrder, faults>>

Test8Iterations == 1

Test8Run ==
    /\ pc = "T8_links"
    /\ loc.i >= symlink_count
    /\ CallRunTest(Cat(loc.last_dir_name, Str(<<"\\", "0">>)), Test8Iterations,
                   IntToString(symlink_count), HandleOf(stack, "shadow_dir"),
                   "T8_print")
    /\ UNCHANGED <<argv, loc, stack, objs, href, lastOp, nOps, timer, timeLog,
                   out, exc, rc, badClose, closedNull, vecOrder, faults>>

Test8Print ==
    /\ pc = "T8_print"
    /\ out' = Append(out, Line("report", Test8Iterations))
    /\ pc' = "exit_scope"
    /\ UNCHANGED <<argv, loc, rt, stack, objs, href, lastOp, nOps, timer, timeLog,
                   exc, rc, badClose, closedNull, vecOrder, faults>>

MaxArg == 3
ArgTokens == {<<"x">>, <<"-", "1">>} \cup {<<Digit(n)>> : n \in 0..MaxArg}

\* the number of arguments scenario n reads
NArgs(n) == CASE n \in {1, 2, 6} -> 1 [] n \in {3, 5, 7} -> 2 [] n = 4 -> 3 [] n = 8 -> 4

RECURSIVE ArgLists(_)
ArgLists(n) == IF n = 0 THEN {<<>>}
               ELSE {Append(l, a) : l \in ArgLists(n - 1), a \in ArgTokens}

\* no argument, an unknown scenario, and every scenario with each argument
\* it reads drawn from ArgTokens
Argvs == {<<>>, <<<<"9">>>>, <<<<"x">>>>}
            \cup UNION {{<<<<Digit(n)>>>> \o l : l \in ArgLists(NArgs(n))} : n \in 1..8}

Init ==
    /\ argv \in Argvs
    /\ pc = "main"
    /\ loc = InitLoc
    /\ rt = NoRt
    /\ stack = <<>>
    /\ objs = InitObjs
    /\ href = <<>>
    /\ lastOp = NoOp
    /\ nOps = 0
    /\ timer = NoTimer
    /\ timeLog = <<>>
    /\ out = <<>>
    /\ exc = STATUS_SUCCESS
    /\ rc = 0 - 1
    /\ badClose = <<>>
    /\ closedNull = FALSE
    /\ vecOrder \in {"fwd", "rev"}
    /\ faults = TRUE

Next ==
    \/ Main \/ Catch \/ ScopeDone \/ PopLocal
    \/ RT_Create \/ RT_Open \/ RT_Return \/ RT_Done
    \/ Test1 \/ Test1Print \/ Test2 \/ Test2Print \/ Test2End
    \/ Test3Open \/ Test3Create \/ Test3Sample \/ Test3Print \/ Test3End
    \/ Test4Open \/ Test4Create \/ Test4Name \/ Test4Link \/ Test4Run \/ Test4Print
    \/ Test5Base \/ Test5Create \/ Test5Open \/ Test5Print \/ Test5End
    \/ Test6Names \/ Test6Base \/ Test6Create \/ Test6Print
    \/ Test7Shadow \/ Test7Target \/ Test7Sample \/ Test7Print \/ Test7End
    \/ Test8Shadow \/ Test8Target \/ Test8Create \/ Test8Created \/ Test8Link
    \/ Test8Run \/ Test8Print

Spec == Init /\ [][Next]_vars

(***************************************************************************)
(* Test3 on deep chains: dir_count around the multiples of the sampling    *)
(* interval, every call succeeding.                                        *)
(***************************************************************************)
MaxDeep == 2
DeepCounts == {0, 1, 10} \cup {SampleEvery * k + e : k \in 1..MaxDeep, e \in {0 - 1, 0, 1}}

InitDeep ==
    /\ argv \in {<<<<"3">>, <<Digit(it)>>, Digits(d)>> : it \in 1..2, d \in DeepCounts}
    /\ pc = "main"
    /\ loc = InitLoc
    /\ rt = NoRt
    /\ stack = <<>>
    /\ objs = InitObjs
    /\ href = <<>>
    /\ lastOp = NoOp
    /\ nOps = 0
    /\ timer = NoTimer
    /\ timeLog = <<>>
    /\ out = <<>>
    /\ exc = STATUS_SUCCESS
    /\ rc = 0 - 1
    /\ badClose = <<>>
    /\ closedNull = FALSE
    /\ vecOrder \in {"fwd", "rev"}
    /\ faults = FALSE

NextDeep ==
    \/ Main \/ ScopeDone \/ PopLocal
    \/ RT_Create \/ RT_Open \/ RT_Return \/ RT_Done
    \/ Test3Open \/ Test3Create \/ Test3Sample \/ Test3Print \/ Test3End

SpecDeep == InitDeep /\ [][NextDeep]_vars

(***************************************************************************)
(* The names the scenarios pass, with default parameters.  A run with the  *)
(* default counts holds tens of thousands of handles; the actions below    *)
(* follow the same statements of Test2 and Test5..Test8 in program order   *)
(* and build the same names with the same operators, but record only the   *)
(* name (and link target) handed to each namespace call, every call        *)
(* succeeding, and not the handles.  RunTest passes create_name to         *)
(* CreateEvent and name to NtOpenEvent.                                    *)
(***************************************************************************)
Pass(opname, name, target) ==
    /\ lastOp' = OpRec(opname, name, NullHandle, target, STATUS_SUCCESS, 0)
    /\ nOps' = nOps + 1

NamesFrame == <<argv, rt, stack, objs, href, timer, timeLog, exc, rc, badClose,
                closedNull, vecOrder, faults>>

\* Test2: RunTest(L"\\BaseNamedObjects\\A" + path, iterations), then the sample
Names2 ==
    /\ pc = "T2"
    /\ Size(loc.path) <= MaxPathLen
    /\ Pass("open_event", Test2Name(loc.path), <<>>)
    /\ out' = Append(out, Line("sample", Size(loc.path)))
    /\ loc' = [loc EXCEPT !.path = Cat(@, Repeat("A", PathStep))]
    /\ UNCHANGED pc
    /\ UNCHANGED NamesFrame

\* CreateDirectory(L"\\BaseNamedObjects\\A") of Test5, Test6, Test7 and Test8
NamesBase ==
    /\ pc \in {"T5", "T6", "T7", "T8"}
    /\ Pass("create_dir", BaseA, <<>>)
    /\ loc' = [loc EXCEPT !.path = IF test_no = 5 THEN MakeCollisionName(collision_count)
                                   ELSE @,
                          !.i = 0]
    /\ pc' = CASE test_no = 5 -> "T5_loop" [] test_no = 6 -> "T6_loop"
                [] test_no = 7 -> "T7_target" [] test_no = 8 -> "T8_target"
    /\ UNCHANGED out
    /\ UNCHANGED NamesFrame

\* Test5, Test6, Test8: CreateDirectory(MakeCollisionName(collision_count - i), ..)
NamesCollision ==
    /\ pc \in {"T5_loop", "T6_loop", "T8_coll"}
    /\ loc.i < (IF test_no = 8 THEN collision_count - 1 ELSE collision_count)
    /\ Pass("create_dir", CollisionName(collision_count, loc.i), <<>>)
    /\ IF test_no = 5 /\ loc.i % SampleEvery = 0
       THEN /\ pc' = "T5_open"
            /\ UNCHANGED loc
       ELSE /\ loc' = [loc EXCEPT !.i = @ + 1]
            /\ UNCHANGED pc
    /\ UNCHANGED out
    /\ UNCHANGED NamesFrame

\* Test5: OpenDirectory(base_dir_name, base_dir.get()) in the sampled loop
Names5Open ==
    /\ pc = "T5_open"
    /\ Pass("open_dir", loc.path, <<>>)
    /\ out' = Append(out, Line("sample", loc.i))
    /\ loc' = [loc EXCEPT !.i = @ + 1]
    /\ pc' = "T5_loop"
    /\ UNCHANGED NamesFrame

\* Test7, Test8: CreateDirectory(L"A", shadow_dir.get(), shadow_dir.get())
NamesTarget ==
    /\ pc \in {"T7_target", "T8_target"}
    /\ Pass("create_dir", Str(<<"A">>), <<>>)
    /\ loc' = [loc EXCEPT !.i = 0]
    /\ pc' = IF test_no = 7 THEN "T7_loop" ELSE "T8_coll"
    /\ UNCHANGED out
    /\ UNCHANGED NamesFrame

\* Test7: RunTest(open_name, iterations, L"X", shadow_dir.get()) creates X ..
Names7Create ==
    /\ pc = "T7_loop"
    /\ loc.i < dir_count
    /\ Pass("create_event", Str(<<"X">>), <<>>)
    /\ pc' = "rt_loop"
    /\ UNCHANGED <<loc, out>>
    /\ UNCHANGED NamesFrame

\* .. and opens open_name; then the sample, and i += 500
Names7Open ==
    /\ test_no = 7
    /\ pc = "rt_loop"
    /\ Pass("open_event", Test7OpenName(loc.i), <<>>)
    /\ out' = Append(out, Line("sample", loc.i))
    /\ loc' = [loc EXCEPT !.i = @ + SampleEvery]
    /\ pc' = "T7_loop"
    /\ UNCHANGED NamesFrame

\* Test8: last_dir_name is built once the collision directories exist
Names8Created ==
    /\ pc = "T8_coll"
    /\ loc.i >= collision_count - 1
    /\ loc' = [loc EXCEPT !.last_dir_name = Test8LastDirName(dir_count), !.i = 0]
    /\ out' = Append(out, Line("created", 0))
    /\ pc' = "T8_links"
    /\ UNCHANGED <<lastOp, nOps>>
    /\ UNCHANGED NamesFrame

\* Test8: CreateLink(IntToString(i), .., last_dir_name + L"\\" + IntToString(i + 1))
Names8Link ==
    /\ pc = "T8_links"
    /\ loc.i < symlink_count
    /\ Pass("create_link", IntToString(loc.i), LinkTarget(loc.last_dir_name, loc.i))
    /\ loc' = [loc EXCEPT !.i = @ + 1]
    /\ UNCHANGED <<pc, out>>
    /\ UNCHANGED NamesFrame

\* Test8: RunTest(last_dir_name + L"\\0", 1, IntToString(symlink_count), ..)
Names8Create ==
    /\ pc = "T8_links"
    /\ loc.i >= symlink_count
    /\ Pass("create_event", IntToString(symlink_count), <<>>)
    /\ pc' = "rt_loop"
    /\ UNCHANGED <<loc, out>>
    /\ UNCHANGED NamesFrame

Names8Open ==
    /\ test_no = 8
    /\ pc = "rt_loop"
    /\ Pass("open_event", Cat(loc.last_dir_name, Str(<<"\\", "0">>)), <<>>)
    /\ out' = Append(out, Line("report", Test8Iterations))
    /\ pc' = "done"
    /\ UNCHANGED loc
    /\ UNCHANGED NamesFrame

\* the loop of Test2, Test5, Test6 or Test7 ends
NamesEnd ==
    /\ CASE pc = "T2" -> Size(loc.path) > MaxPathLen
         [] pc \in {"T5_loop", "T6_loop"} -> loc.i >= collision_count
         [] pc = "T7_loop" -> loc.i >= dir_count
         [] OTHER -> FALSE
    /\ out' = IF pc = "T6_loop" THEN Append(out, Line("report", Test6TimerArg)) ELSE out
    /\ pc' = "done"
    /\ UNCHANGED <<loc, lastOp, nOps>>
    /\ UNCHANGED NamesFrame

\* Test2, Test5, Test6, Test7 and Test8 started without further arguments
InitNames ==
    /\ argv \in {<<<<Digit(n)>>>> : n \in {2, 5, 6, 7, 8}}
    /\ pc = "main"
    /\ loc = InitLoc
    /\ rt = NoRt
    /\ stack = <<>>
    /\ objs = InitObjs
    /\ href = <<>>
    /\ lastOp = NoOp
    /\ nOps = 0
    /\ timer = NoTimer
    /\ timeLog = <<>>
    /\ out = <<>>
    /\ exc = STATUS_SUCCESS
    /\ rc = 0 - 1
    /\ badClose = <<>>
    /\ closedNull = FALSE
    /\ vecOrder \in {"fwd", "rev"}
    /\ faults = FALSE

NextNames ==
    \/ Main \/ Names2 \/ NamesBase \/ NamesCollision \/ Names5Open \/ NamesTarget
    \/ Names7Create \/ Names7Open \/ Names8Created \/ Names8Link \/ Names8Create
    \/ Names8Open \/ NamesEnd

SpecNames == InitNames /\ [][NextNames]_vars

(***************************************************************************)
(* Properties                                                              *)
(***************************************************************************)
Failed == exc # STATUS_SUCCESS
Exiting == pc \in {"exit_scope", "unwind", "done", "crashed"}
Handles == 1..Len(href)
\* the handle values held by the live ScopedHandle objects, in stack order
RECURSIVE Held(_)
Held(st) == IF st = <<>> THEN <<>> ELSE Held(SubSeq(st, 1, Len(st) - 1)) \o st[Len(st)].hs
SampleLines(o) == SelectSeq(o, LAMBDA l : l.kind = "sample")
ErrorLines(o) == SelectSeq(o, LAMBDA l : l.kind = "error")

\* C1: no two live ScopedHandle objects own the same raw handle, every value
\* passed to CloseHandle is null or an open handle the destroyed object got
\* from the system (so none is closed twice and none is foreign), and a run
\* that ends has closed every handle it obtained; this includes the destructor
\* of the default-constructed handle when the create/open call failed.
C1_ClosedExactlyOnce ==
    /\ badClose = <<>>
    /\ \A a, b \in 1..Len(Held(stack)) :
          a # b /\ Held(stack)[a] # NullHandle => Held(stack)[a] # Held(stack)[b]
    /\ pc = "done" => \A h \in Handles : ~IsOpen(href, h)

\* C7: while no destructor has closed a value it did not own, every open
\* handle that was created under a root directory handle finds that root
\* handle still open: a root is released only after the handles created under it.
C7_RootOutlivesChildren ==
    badClose = <<>> =>
        \A h \in Handles :
            IsOpen(href, h) /\ href[h].root # NullHandle => IsOpen(href, href[h].root)

\* C8: every call of Timer::GetTime received iterations >= 1, whatever the
\* command-line arguments were.
C8_TimerGuarded == \A k \in 1..Len(timeLog) : timeLog[k].iterations >= 1

\* C3: once a namespace operation has reported an error status, no further
\* namespace operation is made and nothing more is printed except the one
\* status line of the top-level handler; every error status reported is
\* thrown; the error line is printed exactly once, last, when the run ends.
C3_AbortOnFailure ==
    [][ /\ Failed => /\ nOps' = nOps
                     /\ lastOp' = lastOp
                     /\ exc' = exc
                     /\ SampleLines(out') = SampleLines(out)
                     /\ out' \in {out, Append(out, Line("error", exc))}
        /\ NT_ERROR(lastOp'.status) => exc' = lastOp'.status
        /\ ErrorLines(out') = IF Failed' /\ pc' = "done"
                              THEN <<Line("error", exc')>> ELSE <<>>
        /\ Failed' /\ pc' = "done" => out'[Len(out')] = Line("error", exc')
      ]_vars

\* a run that printed a sample, then failed, and ended with the status line
C3_Witness ==
    /\ pc = "done"
    /\ Failed
    /\ Len(SampleLines(out)) >= 1
    /\ out[Len(out)] = Line("error", exc)

\* the objects created in the directory \BaseNamedObjects\A of Test5..Test8
BaseAObj == BaseObj + 1
ChildrenOf(d) == {o \in 1..Len(objs) : objs[o].parent = d}

\* C6: Test6 with collision_count >= 0 creates exactly collision_count
\* directories under the base directory and then prints exactly one report;
\* the one GetTime call has divisor 1 and covers exactly the insertions: the
\* timer starts after the names are generated and the base directory exists.
C6_Test6 ==
    test_no = 6 /\ collision_count >= 0 =>
        LET created == Cardinality(ChildrenOf(BaseAObj))
        IN  /\ created <= collision_count
            /\ Len(timeLog) <= 1
            /\ \A k \in 1..Len(timeLog) :
                  /\ timeLog[k].iterations = 1
                  /\ timeLog[k].ops = collision_count
            /\ timer.running =>
                  /\ Len(loc.names) = collision_count
                  /\ Len(objs) >= BaseAObj /\ PathOf(objs, BaseAObj) = BaseA
                  /\ ~Failed => timer.ops = created
            /\ timer.ops > 0 => timer.running
            /\ out # <<>> /\ ~Failed =>
                  /\ out = <<Line("report", 1)>>
                  /\ created = collision_count
                  /\ Len(timeLog) = 1
            /\ pc = "done" /\ ~Failed => out # <<>>

\* Test6 0 has ended: no insertion, one report, divisor 1
C6_Witness ==
    /\ test_no = 6
    /\ collision_count = 0
    /\ pc = "done"
    /\ out = <<Line("report", 1)>>
    /\ timeLog = <<[iterations |-> 1, ops |-> 0, at |-> "T6_loop"]>>
    /\ ChildrenOf(BaseAObj) = {}

\* the length of the run of zero characters a name starts with
ZeroRun(name) == IF name # <<>> /\ name[1][1] = NUL THEN name[1][2] ELSE 0

\* the collision directories created so far in \BaseNamedObjects\A, in order
\* of creation (in Test8 the directory holds the plain "A" first)
CollisionObjs ==
    LET first == IF test_no = 8 THEN BaseAObj + 2 ELSE BaseAObj + 1
        ids   == {o \in first..Len(objs) :
                     objs[o].parent = BaseAObj /\ objs[o].t = "dir"}
    IN  [k \in 1..Cardinality(ids) |-> objs[first + k - 1].name]

\* the collision names handed to CreateDirectory so far: those created and
\* the one whose creation has just failed
CollisionNames ==
    CollisionObjs \o
        (IF /\ lastOp.op = "create_dir"
            /\ NT_ERROR(lastOp.status)
            /\ lastOp.root # NullHandle
            /\ test_no = 8 => Len(objs) > BaseAObj
         THEN <<lastOp.name>> ELSE <<>>)

WellFormedCollisions(names, C) ==
    /\ \A k \in 1..Len(names) :
          /\ ZeroRun(names[k]) >= 1
          /\ names[k] = <<<<NUL, ZeroRun(names[k])>>, <<"A", 1>>>>
          /\ ZeroRun(names[k]) = C - (k - 1)
    /\ \A k \in 1..(Len(names) - 1) : ZeroRun(names[k]) > ZeroRun(names[k + 1])
    /\ \A j, k \in 1..Len(names) : j # k => names[j] # names[k]

\* C5: for a requested count C >= 1 the collision names Test5 and Test6
\* generate (C of them) and Test8 generates (C - 1 of them) are each a run of
\* zero characters followed by one 'A', with strictly decreasing run lengths
\* starting at C, pairwise distinct, and in Test8 none is the plain "A".
C5_CollisionNames ==
    test_no \in {5, 6, 8} /\ collision_count >= 1 =>
        /\ WellFormedCollisions(CollisionNames, collision_count)
        /\ test_no = 6 /\ pc \notin {"main", "T6"} =>
              /\ WellFormedCollisions(loc.names, collision_count)
              /\ Len(loc.names) = collision_count
        /\ test_no = 8 =>
              /\ \A k \in 1..Len(CollisionNames) : CollisionNames[k] # Str(<<"A">>)
              /\ Len(CollisionNames) <= collision_count - 1
              /\ pc \in {"T8_links", "T8_print"} =>
                    Len(CollisionNames) = collision_count - 1
        /\ test_no \in {5, 6} =>
              /\ Len(CollisionNames) <= collision_count
              /\ pc = "done" /\ ~Failed => Len(CollisionNames) = collision_count

\* Test8 has created all its collision directories next to the plain "A"
C5_Witness ==
    /\ test_no = 8
    /\ collision_count >= 3
    /\ pc = "T8_links"
    /\ Len(CollisionObjs) = collision_count - 1
    /\ objs[BaseAObj + 1].name = Str(<<"A">>)
    /\ objs[BaseAObj + 1].parent = BaseAObj

\* Test4's last directory, its links in order of creation, and its events
LastDirObj == href[loc.last_dir].obj
LinkObjs ==
    LET ids == {o \in 1..Len(objs) : objs[o].t = "link"}
    IN  IF ids = {} THEN <<>>
        ELSE LET first == CHOOSE o \in ids : \A q \in ids : o <= q
             IN  [k \in 1..Cardinality(ids) |-> first + k - 1]
EventObjs == {o \in 1..Len(objs) : objs[o].t = "event"}

\* the namespace with link k of the chain pointing at a name that is not there
BrokenAt(k) ==
    [objs EXCEPT ![LinkObjs[k]].target =
        Cat(PathOf(objs, LastDirObj), Str(<<"\\", "m", "i", "s", "s", "i", "n", "g">>))]

\* C2: in Test4 with symlink_count N >= 1, link i lies in the last directory
\* under the name i and targets the name i+1 of that directory, the event is
\* created there under the name N, and the open by the path of link 0 reaches
\* that event after exactly N links; with any one link of the chain pointing
\* at a missing name the open fails with a lookup error.
C2_LinkChain ==
    test_no = 4 /\ symlink_count >= 1 /\ pc \in {"T4_links", "rt_create", "rt_loop",
                                                 "rt_exit", "T4_print"} =>
        /\ \A k \in 1..Len(LinkObjs) :
              /\ objs[LinkObjs[k]].t = "link"
              /\ objs[LinkObjs[k]].parent = LastDirObj
              /\ objs[LinkObjs[k]].name = IntToString(k - 1)
              /\ objs[LinkObjs[k]].target =
                    Cat(PathOf(objs, LastDirObj), Cat(Str(<<"\\">>), IntToString(k)))
        /\ \A e \in EventObjs :
              /\ objs[e].parent = LastDirObj
              /\ objs[e].name = IntToString(symlink_count)
        /\ pc = "rt_loop" =>
              /\ Len(LinkObjs) = symlink_count
              /\ rt.name = PathOf(objs, LinkObjs[1])
              /\ LET r == NtOpen(objs, href, "event", UnicodeString(rt.name), NullHandle)
                 IN  /\ r.status = STATUS_SUCCESS
                     /\ r.hops = symlink_count
                     /\ r.href[r.h].obj \in EventObjs
                     /\ r.href[r.h].obj = href[HandleOf(stack, "event_handle")].obj
              /\ \A k \in 1..symlink_count :
                    LET r == NtOpen(BrokenAt(k), href, "event", UnicodeString(rt.name),
                                    NullHandle)
                    IN  /\ r.status = "STATUS_OBJECT_NAME_NOT_FOUND"
                        /\ r.hops = k
              /\ lastOp.op = "open_event" =>
                    /\ lastOp.hops = symlink_count
                    /\ href[Len(href)].obj = href[HandleOf(stack, "event_handle")].obj

\* RunTest has opened the event through a chain of three links
C2_Witness ==
    /\ test_no = 4
    /\ symlink_count = 3
    /\ dir_count >= 1
    /\ pc = "rt_loop"
    /\ lastOp.op = "open_event"
    /\ lastOp.status = STATUS_SUCCESS
    /\ lastOp.hops = 3
    /\ objs[href[Len(href)].obj].t = "event"

\* the locals of the scenario function and those of the running RunTest call
ScenarioLocals == IF rt.active THEN SubSeq(stack, 1, rt.base) ELSE stack
RunTestLocals == IF rt.active THEN SubSeq(stack, rt.base + 1, Len(stack)) ELSE <<>>
Range(f) == {f[k] : k \in 1..Len(f)}

\* C9 as stated: while a sample is measured, every handle the scenario has
\* obtained so far is still open (none was released since the scenario began).
C9_NothingReleasedBeforeEnd ==
    pc \in {"rt_loop", "T5_open"} => \A h \in Handles : IsOpen(href, h)

\* C9 amended: until the scenario's scope exit begins, (1) every directory and
\* link the scenario created is held open by a local or collection of the
\* scenario function, as is every handle a live local holds; (2) inside
\* RunTest's measured loop the event and every handle opened so far are held
\* open by RunTest's locals; (3) between RunTest calls no handle to an event
\* is open: they are released when the call returns, before the next sample;
\* (4) a handle is open exactly while a local holds it, so the handle
\* Test5's measured loop opens is released at once.
C9_HeldUntilScopeExit ==
    ~Exiting =>
        /\ \A o \in (BaseObj + 1)..Len(objs) :
              objs[o].t \in {"dir", "link"} =>
                  \E h \in Range(Held(ScenarioLocals)) :
                      IsOpen(href, h) /\ href[h].obj = o
        /\ \A h \in Range(Held(stack)) : IsOpen(href, h)
        /\ pc = "rt_loop" =>
              /\ Len(Held(RunTestLocals)) = 1 + rt.i
              /\ \A h \in Range(Held(RunTestLocals)) :
                    IsOpen(href, h) /\ objs[href[h].obj].t = "event"
        /\ ~rt.active =>
              \A h \in Handles : IsOpen(href, h) => objs[href[h].obj].t # "event"
        /\ \A h \in Handles : IsOpen(href, h) <=> h \in Range(Held(stack))

\* a later sample of Test2, Test3 or Test7 is being measured while the handles
\* of an earlier sample are closed and the scenario's own are open
C9_Witness ==
    /\ pc = "rt_loop"
    /\ rt.i >= 1
    /\ Len(SampleLines(out)) >= 1
    /\ \E h \in Handles : ~IsOpen(href, h)
    /\ test_no = 7 => IsOpen(href, HandleOf(stack, "shadow_dir"))

\* the handles of Test3's dirs collection
Dirs == stack[IndexOf(stack, "dirs")].hs

\* C4: Test3 with dir_count N >= 0 and iterations >= 1, no call failing,
\* prints only sample lines, ceil(N/500) of them in all; line k (k = 0, 1, ..)
\* is printed at loop index 500k, carries 500k + 1, and is printed when
\* exactly 500k + 1 directories, each nested in the one before, exist.
C4_Test3Samples ==
    test_no = 3 /\ dir_count >= 0 /\ iterations >= 1 /\ ~Failed =>
        /\ out = SampleLines(out)
        /\ \A k \in 1..Len(out) : out[k].f1 = 500 * (k - 1) + 1
        /\ Len(out) <= (dir_count + 499) \div 500
        /\ pc = "done" => Len(out) = (dir_count + 499) \div 500
        /\ pc = "T3_print" =>
              /\ loc.i = 500 * Len(out)
              /\ Len(Dirs) = loc.i + 1
              /\ Cardinality({o \in (BaseObj + 1)..Len(objs) : objs[o].t = "dir"})
                    = loc.i + 1
              /\ \A j \in 1..Len(Dirs) :
                    /\ IsOpen(href, Dirs[j])
                    /\ objs[href[Dirs[j]].obj].parent =
                          IF j = 1 THEN BaseObj ELSE href[Dirs[j - 1]].obj

\* Test3 with 501 directories has ended after two samples
C4_Witness ==
    /\ test_no = 3
    /\ dir_count = 501
    /\ pc = "done"
    /\ ~Failed
    /\ out = <<Line("sample", 1), Line("sample", 501)>>

\* C10: with default parameters every name and link target Test2, Test5,
\* Test6, Test7 and Test8 pass has at most 65535 bytes (2 per character), so
\* the 16-bit Length UnicodeString computes is the true byte length; Test2
\* prints 65 samples for the suffix lengths 0, 500, .., 32000 and its longest
\* name has 19 + 32000 characters.
C10_NoTruncation ==
    /\ 2 * Size(lastOp.name) <= 65535
    /\ lastOp.len = 2 * Size(lastOp.name)
    /\ 2 * Size(lastOp.target) <= 65535
    /\ lastOp.tlen = 2 * Size(lastOp.target)
    /\ UStr(UnicodeString(lastOp.name)) = lastOp.name
    /\ test_no = 2 =>
          /\ Len(out) <= 65
          /\ \A k \in 1..Len(out) : out[k] = Line("sample", 500 * (k - 1))
          /\ out # <<>> => Size(lastOp.name) = 19 + 500 * (Len(out) - 1)
          /\ pc = "done" => Len(out) = 65 /\ Size(lastOp.name) = 19 + 32000

\* Test2 has ended after its 65th sample, taken with the longest name
C10_Witness ==
    /\ test_no = 2
    /\ args = <<>>
    /\ pc = "done"
    /\ Len(out) = 65
    /\ Size(lastOp.name) = 32019
    /\ lastOp.len = 64038
====
